---- MODULE Spec2Model ----
(***************************************************************************)
(* Model of the threat-scoring and lateral-movement graph engine of the    *)
(* SecurityAI backend:                                                     *)
(*   - GraphAnalyzer (backend/app/services/ml_pipeline.py): a networkx     *)
(*     Graph mutated by add_connection and read by                         *)
(*     detect_lateral_movement and get_attack_paths;                       *)
(*   - MLPipeline._calculate_threat_score (same file): the signal fusion;  *)
(*   - the cached /attack-paths endpoint (api/v1/endpoints/visualize.py)   *)
(*     over the Redis helpers of core/database.py.                         *)
(*                                                                         *)
(* Scores are floats in the source.  They are modelled exactly, as         *)
(* integers counting thousandths (Unit = 1000 stands for 1.0); every       *)
(* input is chosen so that the products and quotients are exact.           *)
(***************************************************************************)
EXTENDS Integers, Sequences, FiniteSets, TLC

VARIABLES
    is_initialized,   \* GraphAnalyzer.is_initialized
    nodes,            \* keys of graph._node, in insertion order
    adj,              \* adj[u]: keys of graph._adj[u], in insertion order
    edata,            \* edata[<<u, v>>]: the attribute dict of edge u-v
    observed,         \* history: per unordered pair, what add_connection applied
    nObs,             \* history: number of observations the analyzer applied
    call,             \* the last query made to the analyzer
    ret,              \* the value that query returned (the list of
                      \* get_attack_paths under the field attack_paths)
    results,          \* the results dict handed to _calculate_threat_score
    threat_score,     \* what _calculate_threat_score returned for it
    alerts,           \* the unresolved rows of table alerts, oldest first
    now,              \* the wall clock, in seconds
    redis_client,     \* database.redis_client: "None", "connected", "unreachable"
    store,            \* the keys of the Redis server, with value and expiry
    req,              \* the last GET /attack-paths request
    resp,             \* the HTTP response it got
    scan,             \* the get_attack_paths call in progress in a thread
    write             \* the add_connection call in progress in a thread

analyzerVars == <<is_initialized, nodes, adj, edata, observed, nObs, call, ret>>
graphVars == <<nodes, adj, edata>>
fuseVars == <<results, threat_score>>
cacheVars == <<alerts, now, redis_client, store, req, resp>>
threadVars == <<scan, write>>
vars == <<analyzerVars, fuseVars, cacheVars, threadVars>>

----------------------------------------------------------------------------
(* Bounds and input sets *)

MaxObs == 2

\* Every asset ID of the model; the empty string is an ID like the others.
AssetIds == {"", "A", "B", "C", "D"}
\* The IDs the callers of Spec use, and those the callers of SpecEmptyId use.
Assets == {"A", "B", "C"}
IdsWithEmpty == {"", "A"}
ConnectionTypes == {"login", "file-transfer"}
\* weight is any float: reinforcements of 2 and 3, and a negative one.
WeightDeltas == {-1, 2, 3}
\* risk_threshold, in thousandths: 0.0, the default 0.5 and 1.0.
RiskThresholds == {0, 500, 1000}

Unit == 1000
Normalization == 10
SuspiciousAbove == 700

----------------------------------------------------------------------------
(* Generic helpers *)

Range(s) == {s[i] : i \in 1..Len(s)}

Min(x, y) == IF x <= y THEN x ELSE y

Pairs == {{a, b} : a \in AssetIds, b \in AssetIds}

NoData == [weight |-> 0, types |-> {}]

----------------------------------------------------------------------------
(* networkx.Graph as used by GraphAnalyzer *)

\* Graph.has_node(n): n in self._node
HasNode(ns, n) == n \in Range(ns)

\* Graph.has_edge(u, v): v in self._adj[u]; a KeyError (u unknown) gives False.
\* The adjacency of an undirected Graph holds v under u and u under v.
HasEdge(ad, u, v) == v \in Range(ad[u])

\* Graph.add_node as done inside add_edge: a new key at the end of _node.
AddNode(ns, n) == IF n \in Range(ns) THEN ns ELSE Append(ns, n)

\* A list-like adjacency: the key is appended even when it is already there.
AddKeyAlways(keys, k) == Append(keys, k)

\* _adj[u][v] = datadict: assigning an existing key keeps its position.
AddKey(keys, k) == IF k \in Range(keys) THEN keys ELSE Append(keys, k)

\* Graph.add_edge(u, v, **attr): both nodes are created when missing, the
\* edge's dict (a new one when the edge is missing) is updated with attr and
\* stored under _adj[u][v] and _adj[v][u] (one shared dict).
AddEdgeNodes(ns, u, v) == AddNode(AddNode(ns, u), v)

AddEdgeAdj(ad, u, v) ==
    LET withV == [ad EXCEPT ![u] = AddKey(@, v)]
    IN  [withV EXCEPT ![v] = AddKey(@, u)]

SetEdgeData(ed, u, v, d) == [ed EXCEPT ![<<u, v>>] = d, ![<<v, u>>] = d]

----------------------------------------------------------------------------
(* networkx.has_path and networkx.shortest_path(G, s, t, weight='weight')  *)

\* nx.has_path(G, source, target): an unweighted search from source reaches
\* target.  Reach(ad, S) is the set of nodes reachable from the set S.
RECURSIVE Reach(_, _)
Reach(ad, S) ==
    LET next == S \cup UNION {Range(ad[u]) : u \in S}
    IN  IF next = S THEN S ELSE Reach(ad, next)

HasPath(ad, source, target) == target \in Reach(ad, {source})

Reverse(s) == [i \in 1..Len(s) |-> s[Len(s) + 1 - i]]

Tail1(s) == SubSeq(s, 2, Len(s))

\* heappop on a heap of (distance, counter, node): the least tuple.
HeapMin(F) ==
    CHOOSE e \in F : \A f \in F :
        e[1] < f[1] \/ (e[1] = f[1] /\ e[2] <= f[2])

\* State of bidirectional_dijkstra; index 1 is the forward search (dir == 0 in
\* networkx), index 2 the backward search (dir == 1).
DijkstraInit(source, target) ==
    [ done      |-> <<{}, {}>>,                          \* keys of dists[dir]
      dists     |-> <<[n \in AssetIds |-> 0], [n \in AssetIds |-> 0]>>,
      seenSet   |-> <<{source}, {target}>>,              \* keys of seen[dir]
      seen      |-> <<[n \in AssetIds |-> 0], [n \in AssetIds |-> 0]>>,
      paths     |-> <<[n \in AssetIds |-> IF n = source THEN <<source>> ELSE <<>>],
                      [n \in AssetIds |-> IF n = target THEN <<target>> ELSE <<>>]>>,
      fringe    |-> <<{<<0, 0, source>>}, {<<0, 1, target>>}>>,
      c         |-> 2,
      finaldist |-> 0,
      finalpath |-> <<>>,
      dir       |-> 2,
      status    |-> "running" ]

\* The body of "for w, d in neighs[dir][v].items()" for the i-th neighbour
\* of v and the ones after it.
RECURSIVE Relax(_, _, _, _, _)
Relax(ad, ed, s, v, i) ==
    IF i > Len(ad[v]) THEN s
    ELSE
      LET dir      == s.dir
          w        == ad[v][i]
          cost     == ed[<<v, w>>].weight
          vwLength == s.dists[dir][v] + cost
      IN  IF w \in s.done[dir]
          THEN IF vwLength < s.dists[dir][w]
               THEN [s EXCEPT !.status = "ValueError"]
               ELSE Relax(ad, ed, s, v, i + 1)
          ELSE IF w \notin s.seenSet[dir] \/ vwLength < s.seen[dir][w]
          THEN
            LET s1 == [s EXCEPT !.seenSet[dir] = @ \cup {w},
                                !.seen[dir][w] = vwLength,
                                !.fringe[dir]  = @ \cup {<<vwLength, s.c, w>>},
                                !.c            = @ + 1,
                                !.paths[dir][w] = Append(s.paths[dir][v], w)]
                both      == w \in s1.seenSet[1] /\ w \in s1.seenSet[2]
                totaldist == s1.seen[1][w] + s1.seen[2][w]
                s2 == IF both /\ (s1.finalpath = <<>> \/ s1.finaldist > totaldist)
                      THEN [s1 EXCEPT !.finaldist = totaldist,
                                      !.finalpath = s1.paths[1][w]
                                          \o Tail1(Reverse(s1.paths[2][w]))]
                      ELSE s1
            IN  Relax(ad, ed, s2, v, i + 1)
          ELSE Relax(ad, ed, s, v, i + 1)

\* The "while fringe[0] and fringe[1]" loop.
RECURSIVE DijkstraLoop(_, _, _)
DijkstraLoop(ad, ed, s) ==
    IF s.fringe[1] = {} \/ s.fringe[2] = {}
    THEN [s EXCEPT !.status = "NetworkXNoPath"]
    ELSE
      LET dir == 3 - s.dir
          e   == HeapMin(s.fringe[dir])
          v   == e[3]
          s1  == [s EXCEPT !.dir = dir, !.fringe[dir] = @ \ {e}]
      IN  IF v \in s1.done[dir]
          THEN DijkstraLoop(ad, ed, s1)
          ELSE
            LET s2 == [s1 EXCEPT !.done[dir] = @ \cup {v},
                                 !.dists[dir][v] = e[1]]
            IN  IF v \in s2.done[3 - dir]
                THEN [s2 EXCEPT !.status = "found"]
                ELSE
                  LET s3 == Relax(ad, ed, s2, v, 1)
                  IN  IF s3.status = "ValueError" THEN s3
                      ELSE DijkstraLoop(ad, ed, s3)

\* nx.bidirectional_dijkstra(G, source, target, weight): [status, path].
BidirectionalDijkstra(ad, ed, source, target) ==
    IF source = target
    THEN [status |-> "found", path |-> <<source>>]
    ELSE LET s == DijkstraLoop(ad, ed, DijkstraInit(source, target))
         IN  [status |-> s.status, path |-> s.finalpath]

\* nx.shortest_path(G, source, target, weight='weight'): with both ends given
\* and a weight, the default method is Dijkstra, run from both ends.
ShortestPath(ad, ed, source, target) ==
    BidirectionalDijkstra(ad, ed, source, target)

----------------------------------------------------------------------------
(* GraphAnalyzer *)

\* sum(graph[path[i]][path[i+1]]['weight'] for i in range(len(path) - 1))
RECURSIVE PathWeight(_, _)
PathWeight(ed, path) ==
    IF Len(path) < 2 THEN 0
    ELSE ed[<<path[1], path[2]>>].weight + PathWeight(ed, Tail(path))

\* The risk without min(1.0, .).
RiskScoreUncapped(path_length, total_weight) ==
    (path_length * total_weight * Unit) \div Normalization

\* min(1.0, (path_length * total_weight) / 10.0), in thousandths
RiskScore(path_length, total_weight) ==
    Min(Unit, (path_length * total_weight * Unit) \div Normalization)

\* risk_score > 0.7
IsSuspicious(risk_score) == risk_score > SuspiciousAbove

NoRisk == [risk_score |-> 0, path |-> <<>>, is_suspicious |-> FALSE]

\* detect_lateral_movement with a shortcut for a direct edge: the edge
\* itself is taken for the path, a self-loop included.
DetectLateralMovementDirectEdge(init, ns, ad, ed, source, target) ==
    IF ~init \/ ~HasNode(ns, source) \/ ~HasNode(ns, target)
    THEN NoRisk
    ELSE IF ~HasPath(ad, source, target)
    THEN NoRisk
    ELSE LET sp == IF HasEdge(ad, source, target)
                   THEN [status |-> "found", path |-> <<source, target>>]
                   ELSE ShortestPath(ad, ed, source, target)
         IN  IF sp.status # "found"
             THEN NoRisk
             ELSE LET path         == sp.path
                      path_length  == Len(path) - 1
                      total_weight == PathWeight(ed, path)
                      risk_score   == RiskScore(path_length, total_weight)
                  IN  [risk_score    |-> risk_score,
                       path          |-> path,
                       path_length   |-> path_length,
                       is_suspicious |-> IsSuspicious(risk_score),
                       total_weight  |-> total_weight]

\* detect_lateral_movement without the has_path test and without the
\* "except Exception" handler: a failed search reaches the caller as an error.
DetectLateralMovementUnguarded(init, ns, ad, ed, source, target) ==
    IF ~init \/ ~HasNode(ns, source) \/ ~HasNode(ns, target)
    THEN NoRisk
    ELSE LET sp == ShortestPath(ad, ed, source, target)
         IN  IF sp.status # "found"
             THEN [risk_score |-> 0, path |-> <<>>, is_suspicious |-> FALSE,
                   error |-> sp.status]
             ELSE LET path         == sp.path
                      path_length  == Len(path) - 1
                      total_weight == PathWeight(ed, path)
                      risk_score   == RiskScore(path_length, total_weight)
                  IN  [risk_score    |-> risk_score,
                       path          |-> path,
                       path_length   |-> path_length,
                       is_suspicious |-> IsSuspicious(risk_score),
                       total_weight  |-> total_weight]

\* detect_lateral_movement counting the assets of the path for its edges:
\* path_length = len(path).
DetectLateralMovementNodeCount(init, ns, ad, ed, source, target) ==
    IF ~init \/ ~HasNode(ns, source) \/ ~HasNode(ns, target)
    THEN NoRisk
    ELSE IF HasPath(ad, source, target)
    THEN LET sp == ShortestPath(ad, ed, source, target)
         IN  IF sp.status # "found"
             THEN NoRisk            \* except Exception: logged, zero result
             ELSE LET path         == sp.path
                      path_length  == Len(path)
                      total_weight == PathWeight(ed, path)
                      risk_score   == RiskScore(path_length, total_weight)
                  IN  [risk_score    |-> risk_score,
                       path          |-> path,
                       path_length   |-> path_length,
                       is_suspicious |-> IsSuspicious(risk_score),
                       total_weight  |-> total_weight]
    ELSE NoRisk

\* GraphAnalyzer.detect_lateral_movement(source, target)
DetectLateralMovement(init, ns, ad, ed, source, target) ==
    IF ~init \/ ~HasNode(ns, source) \/ ~HasNode(ns, target)
    THEN NoRisk
    ELSE IF HasPath(ad, source, target)
    THEN LET sp == ShortestPath(ad, ed, source, target)
         IN  IF sp.status # "found"
             THEN NoRisk            \* except Exception: logged, zero result
             ELSE LET path         == sp.path
                      path_length  == Len(path) - 1
                      total_weight == PathWeight(ed, path)
                      risk_score   == RiskScore(path_length, total_weight)
                  IN  [risk_score    |-> risk_score,
                       path          |-> path,
                       path_length   |-> path_length,
                       is_suspicious |-> IsSuspicious(risk_score),
                       total_weight  |-> total_weight]
    ELSE NoRisk

\* The pairs (nodes[i], nodes[j]), i < j, in the order of the two loops.
RECURSIVE NodePairs(_, _, _)
NodePairs(ns, i, j) ==
    IF i > Len(ns) THEN <<>>
    ELSE IF j > Len(ns) THEN NodePairs(ns, i + 1, i + 2)
    ELSE <<(<<ns[i], ns[j]>>)>> \o NodePairs(ns, i, j + 1)

\* An unstable sort: an entry goes before the entries of equal risk_score.
SortInsertBeforeEqual(sorted, x) ==
    LET k == Cardinality({i \in 1..Len(sorted) :
                              sorted[i].risk_score > x.risk_score})
    IN  SubSeq(sorted, 1, k) \o <<x>> \o SubSeq(sorted, k + 1, Len(sorted))

\* sorted(attack_paths, key=risk_score, reverse=True): a stable sort, entries
\* of equal risk_score keep the order in which they were appended.
SortInsert(sorted, x) ==
    LET k == Cardinality({i \in 1..Len(sorted) :
                              sorted[i].risk_score >= x.risk_score})
    IN  SubSeq(sorted, 1, k) \o <<x>> \o SubSeq(sorted, k + 1, Len(sorted))

RECURSIVE SortedByRisk(_)
SortedByRisk(s) ==
    IF Len(s) <= 1 THEN s
    ELSE SortInsert(SortedByRisk(SubSeq(s, 1, Len(s) - 1)), s[Len(s)])

\* The loops of get_attack_paths with ">=" for ">" in the threshold test.
RECURSIVE AttackEntriesInclusive(_, _, _, _, _, _)
AttackEntriesInclusive(init, ns, ad, ed, ps, risk_threshold) ==
    IF ps = <<>> THEN <<>>
    ELSE LET source == ps[1][1]
             target == ps[1][2]
             result == DetectLateralMovement(init, ns, ad, ed, source, target)
             rest   == AttackEntriesInclusive(init, ns, ad, ed, Tail(ps),
                                              risk_threshold)
         IN  IF result.risk_score >= risk_threshold
             THEN <<[source |-> source, target |-> target] @@ result>> \o rest
             ELSE rest

\* The entries appended by the loops of get_attack_paths for the pairs ps.
RECURSIVE AttackEntries(_, _, _, _, _, _)
AttackEntries(init, ns, ad, ed, ps, risk_threshold) ==
    IF ps = <<>> THEN <<>>
    ELSE LET source == ps[1][1]
             target == ps[1][2]
             result == DetectLateralMovement(init, ns, ad, ed, source, target)
             rest   == AttackEntries(init, ns, ad, ed, Tail(ps), risk_threshold)
         IN  IF result.risk_score > risk_threshold
             THEN <<[source |-> source, target |-> target] @@ result>> \o rest
             ELSE rest

\* GraphAnalyzer.get_attack_paths(risk_threshold)
GetAttackPaths(init, ns, ad, ed, risk_threshold) ==
    IF ~init THEN <<>>
    ELSE SortedByRisk(
             AttackEntries(init, ns, ad, ed, NodePairs(ns, 1, 2), risk_threshold))

----------------------------------------------------------------------------
(* MLPipeline._calculate_threat_score: the fusion of the three signals.    *)
(* The scores of the results dict are in thousandths, the weights too, and *)
(* the fused score is their exact sum of products, in millionths.          *)

\* weights = {"anomaly_detection": 0.3, "threat_classification": 0.4,
\*            "graph_analysis": 0.3}
weights == [anomaly_detection |-> 300, threat_classification |-> 400,
            graph_analysis |-> 300]

\* The 0.5 applied to the confidence of a "suspicious" classification.
SuspiciousFactor == 500

\* 1.0 on the scale of the fused score.
One == Unit * Unit

\* dict.get(key, default)
Get(d, key, default) == IF key \in DOMAIN d THEN d[key] ELSE default

\* "-=" for "+=": the anomaly score lowers the fused score.
AnomalyContributionSubtracted(res) ==
    IF "anomaly_detection" \in DOMAIN res
    THEN 0 - Get(res.anomaly_detection, "anomaly_score", 0)
                 * weights.anomaly_detection
    ELSE 0

\* score += anomaly_score * weights["anomaly_detection"]
AnomalyContribution(res) ==
    IF "anomaly_detection" \in DOMAIN res
    THEN Get(res.anomaly_detection, "anomaly_score", 0) * weights.anomaly_detection
    ELSE 0

\* The classification branch weighting 1 - confidence for confidence.
ClassificationContributionInverted(res) ==
    IF "threat_classification" \in DOMAIN res
    THEN LET classification == Get(res.threat_classification,
                                   "classification", "benign")
             confidence == Unit - Get(res.threat_classification, "confidence", 0)
         IN  IF classification = "malicious"
             THEN confidence * weights.threat_classification
             ELSE IF classification = "suspicious"
             THEN (confidence * SuspiciousFactor * weights.threat_classification)
                      \div Unit
             ELSE 0
    ELSE 0

\* The classification branch with the 0.5 of "suspicious" left out.
ClassificationContributionUnscaled(res) ==
    IF "threat_classification" \in DOMAIN res
    THEN LET classification == Get(res.threat_classification,
                                   "classification", "benign")
             confidence == Get(res.threat_classification, "confidence", 0)
         IN  IF classification \in {"malicious", "suspicious"}
             THEN confidence * weights.threat_classification
             ELSE 0
    ELSE 0

\* malicious: confidence * 0.4; suspicious: confidence * 0.5 * 0.4; else none.
ClassificationContribution(res) ==
    IF "threat_classification" \in DOMAIN res
    THEN LET classification == Get(res.threat_classification,
                                   "classification", "benign")
             confidence == Get(res.threat_classification, "confidence", 0)
         IN  IF classification = "malicious"
             THEN confidence * weights.threat_classification
             ELSE IF classification = "suspicious"
             THEN (confidence * SuspiciousFactor * weights.threat_classification)
                      \div Unit
             ELSE 0
    ELSE 0

\* score += graph_score * weights["graph_analysis"]
GraphContribution(res) ==
    IF "graph_analysis" \in DOMAIN res
    THEN Get(res.graph_analysis, "risk_score", 0) * weights.graph_analysis
    ELSE 0

\* MLPipeline._calculate_threat_score(results).  The dicts hold numbers and
\* strings, nothing in the body raises, so the handler returning 0.0 is
\* never entered.
CalculateThreatScore(res) ==
    Min(One, AnomalyContribution(res) + ClassificationContribution(res)
                 + GraphContribution(res))

\* The inputs of the fusion: scores and confidences within [0, 1].
AnomalyScores == {0, 300, 900, 1000}
Classifications == {"benign", "suspicious", "malicious"}
Confidences == {0, 500, 800, 1000}
GraphRisks == {0, 500, 1000}

\* The results dict analyze_event builds from the three signals (the keys
\* that _calculate_threat_score reads).
Results(anomaly_score, classification, confidence, risk_score) ==
    [anomaly_detection |-> [anomaly_score |-> anomaly_score],
     threat_classification |-> [classification |-> classification,
                                confidence |-> confidence],
     graph_analysis |-> [risk_score |-> risk_score]]

NotScored == [computed |-> FALSE, value |-> 0]

\* No fusion is going on.
FuseIdle ==
    /\ results = Results(0, "benign", 0, 0)
    /\ threat_score = NotScored

----------------------------------------------------------------------------
(* The cached endpoint GET /attack-paths (visualize.get_attack_paths) and  *)
(* the Redis helpers of core/database.py.                                  *)

MaxAlerts == 2

\* The instants the wall clock takes, in seconds.
Instants == {0, 200, 400}

\* await cache_data(cache_key, result, 300)
CacheTtl == 300

\* The rows of table assets (id, risk_level); no step of the model changes it.
AssetsTable == <<[id |-> "A", risk_level |-> "high"],
                 [id |-> "B", risk_level |-> "critical"],
                 [id |-> "C", risk_level |-> "low"]>>

\* The risk_level parameter ("None" when absent) and the time_range parameter.
RiskLevels == {"None", "high"}
TimeRanges == {"24h"}

\* affected_assets and category of the alerts that get inserted.
AffectedAssets == {<<"A", "B">>, <<"B", "C">>, <<"A">>}
Categories == {"intrusion"}

\* cache_key = f"attack_paths:{risk_level}:{time_range}"
CacheKey(risk_level, time_range) == <<"attack_paths", risk_level, time_range>>

CacheKeys == {CacheKey(r, t) : r \in RiskLevels, t \in TimeRanges}

\* A key the server does not hold.
NoEntry == [present |-> FALSE]

\* get_redis_client, then a command sent to the server: RuntimeError when
\* the client was never created, ConnectionError when the server is down.
GetRedisClient(client) ==
    IF client = "None" THEN "RuntimeError"
    ELSE IF client = "unreachable" THEN "ConnectionError"
    ELSE "ok"

\* str(data), and eval of that text: the dicts of the endpoint hold strings,
\* integers and lists of them, whose repr evaluates back to an equal value.
Str(data) == [repr |-> data]
Eval(text) == text.repr

\* A server that keeps its keys for ever: the expiry of setex is ignored.
RedisGetNoExpiry(st, key, t) ==
    IF st[key].present
    THEN [nil |-> FALSE, value |-> st[key].value]
    ELSE [nil |-> TRUE]

\* client.get(key): the value of a key that is set and has not expired.
RedisGet(st, key, t) ==
    IF st[key].present /\ t < st[key].expires_at
    THEN [nil |-> FALSE, value |-> st[key].value]
    ELSE [nil |-> TRUE]

\* get_cached_data(key)
GetCachedData(client, st, key, t) ==
    IF GetRedisClient(client) # "ok"
    THEN [raised |-> GetRedisClient(client)]
    ELSE LET data == RedisGet(st, key, t)
         IN  IF data.nil THEN [raised |-> "no", hit |-> FALSE]
             ELSE [raised |-> "no", hit |-> TRUE, value |-> Eval(data.value)]

\* cache_data(key, data, expire_seconds): client.setex(key, seconds, str(data))
CacheData(st, key, data, expire_seconds, t) ==
    [st EXCEPT ![key] = [present |-> TRUE, value |-> Str(data),
                         expires_at |-> t + expire_seconds]]

\* NOW() - INTERVAL of the time_range, in seconds.
Interval(time_range) == IF time_range = "1h" THEN 3600 ELSE 86400

\* SELECT ... FROM assets [WHERE risk_level = '{risk_level}']
FetchAssets(risk_level) ==
    SelectSeq(AssetsTable,
              LAMBDA row : risk_level = "None" \/ row.risk_level = risk_level)

\* SELECT ... FROM alerts WHERE status != 'resolved' AND created_at >= ...
FetchAlerts(als, time_range, t) ==
    SelectSeq(als, LAMBDA alert : alert.created_at >= t - Interval(time_range))

\* G = nx.Graph() with one G.add_node(str(asset["id"])) per asset row.
RECURSIVE AssetNodes(_)
AssetNodes(rows) ==
    IF rows = <<>> THEN <<>>
    ELSE AddNode(AssetNodes(SubSeq(rows, 1, Len(rows) - 1)), rows[Len(rows)].id)

EmptyGraph(rows) ==
    [nodes |-> AssetNodes(rows),
     adj   |-> [n \in AssetIds |-> <<>>],
     edata |-> [e \in AssetIds \X AssetIds |->
                   [weight |-> 0, alert_type |-> "None"]]]

\* The i < j loops over the affected assets of one alert: a new edge gets
\* weight 1 and the category of the alert, an existing one gets weight += 1.
RECURSIVE ConnectAffected(_, _, _)
ConnectAffected(G, ps, category) ==
    IF ps = <<>> THEN G
    ELSE LET asset1 == ps[1][1]
             asset2 == ps[1][2]
             H == IF ~HasEdge(G.adj, asset1, asset2)
                  THEN [nodes |-> AddEdgeNodes(G.nodes, asset1, asset2),
                        adj   |-> AddEdgeAdj(G.adj, asset1, asset2),
                        edata |-> SetEdgeData(G.edata, asset1, asset2,
                                     [weight |-> 1, alert_type |-> category])]
                  ELSE [G EXCEPT !.edata = SetEdgeData(G.edata, asset1, asset2,
                                     [G.edata[<<asset1, asset2>>] EXCEPT
                                          !.weight = @ + 1])]
         IN  ConnectAffected(H, Tail(ps), category)

\* "for alert in alerts": alerts of two or more assets connect them.
RECURSIVE BuildGraph(_, _)
BuildGraph(G, als) ==
    IF als = <<>> THEN G
    ELSE LET affected == als[1].affected_assets
         IN  BuildGraph(IF Len(affected) > 1
                        THEN ConnectAffected(G, NodePairs(affected, 1, 2),
                                             als[1].category)
                        ELSE G,
                        Tail(als))

\* G.edges(data=True): each edge once, from the endpoint seen first, in the
\* insertion order of the nodes and of their neighbours.
RECURSIVE GraphEdges(_, _)
GraphEdges(G, i) ==
    IF i > Len(G.nodes) THEN <<>>
    ELSE LET u == G.nodes[i]
             seen == {G.nodes[k] : k \in 1..(i - 1)}
             nbrs == SelectSeq(G.adj[u], LAMBDA v : v \notin seen)
         IN  [k \in 1..Len(nbrs) |->
                 [from |-> u, to |-> nbrs[k],
                  weight |-> G.edata[<<u, nbrs[k]>>].weight,
                  alert_type |-> G.edata[<<u, nbrs[k]>>].alert_type]]
             \o GraphEdges(G, i + 1)

\* The node dicts of the response: the neighbours of the asset in G and the
\* number of fetched alerts that name it (label, type and position, copied
\* from the asset row, are left out).
ResultNodes(rows, G, als, t) ==
    [k \in 1..Len(rows) |->
        [id          |-> rows[k].id,
         riskLevel   |-> rows[k].risk_level,
         connections |-> G.adj[rows[k].id],
         threats     |-> Cardinality({i \in 1..Len(als) :
                             rows[k].id \in Range(als[i].affected_assets)}),
         lastActivity |-> t]]

\* attack_paths: one entry per ordered pair of distinct high or critical
\* nodes joined by a path; the response carries their number only.
AttackPathCount(rows, G) ==
    LET high_risk_nodes == {rows[k].id : k \in {i \in 1..Len(rows) :
                                rows[i].risk_level \in {"high", "critical"}}}
    IN  Cardinality({st \in high_risk_nodes \X high_risk_nodes :
                        st[1] # st[2] /\ HasPath(G.adj, st[1], st[2])})

\* The result dict the endpoint builds from the database at time t.
ComputeResult(risk_level, time_range, als, t) ==
    LET rows    == FetchAssets(risk_level)
        fetched == FetchAlerts(als, time_range, t)
        G       == BuildGraph(EmptyGraph(rows), fetched)
        edges   == GraphEdges(G, 1)
    IN  [nodes |-> ResultNodes(rows, G, fetched, t),
         edges |-> edges,
         metadata |-> [total_nodes  |-> Len(rows),
                       total_edges  |-> Len(edges),
                       attack_paths |-> AttackPathCount(rows, G),
                       risk_level   |-> risk_level,
                       time_range   |-> time_range,
                       generated_at |-> t]]

NoReq == [op |-> "none"]
NoResp == [status |-> 0]

\* HTTPException(500, "Failed to generate attack paths")
AttackPathsError == [status |-> 500, detail |-> "Failed to generate attack paths"]

\* The module globals before init_db, an empty alerts table, an empty server.
CacheInit ==
    /\ alerts = <<>>
    /\ now = 0
    /\ redis_client = "None"
    /\ store = [k \in CacheKeys |-> NoEntry]
    /\ req = NoReq
    /\ resp = NoResp

----------------------------------------------------------------------------
(* State machine of one GraphAnalyzer *)

\* The attributes GraphAnalyzer.__init__ gives the object; no method adds one.
AnalyzerAttributes == {"graph", "is_initialized"}

NoCall == [op |-> "none"]

\* What a call that returns None leaves in ret.
NoneRet == [none |-> TRUE]

\* No call to the analyzer is in progress in any thread.
NoScan == [active |-> FALSE]
NoWrite == [active |-> FALSE]
ThreadsIdle == scan = NoScan /\ write = NoWrite

\* GraphAnalyzer.__init__: an empty nx.Graph, not yet initialized.
AnalyzerInit ==
    /\ is_initialized = FALSE
    /\ nodes = <<>>
    /\ adj = [n \in AssetIds |-> <<>>]
    /\ edata = [e \in AssetIds \X AssetIds |-> NoData]
    /\ observed = [p \in Pairs |->
                      [sum |-> 0, count |-> 0, types |-> {},
                       first |-> <<>>, mixed |-> FALSE]]
    /\ nObs = 0
    /\ call = NoCall
    /\ ret = NoneRet

\* GraphAnalyzer.initialize()
Initialize ==
    /\ is_initialized' = TRUE
    /\ call' = NoCall
    /\ ret' = NoneRet
    /\ UNCHANGED <<nodes, adj, edata, observed, nObs>>
    /\ UNCHANGED <<fuseVars, cacheVars, threadVars>>

\* types = {connection_type} for types.add(connection_type): the tags seen
\* before are dropped.
ReinforceDataRetag(d, connection_type, weight) ==
    [weight |-> d.weight + weight, types |-> {connection_type}]

\* "=" for "+=": the new weight replaces the accumulated one.
ReinforceDataOverwrite(d, connection_type, weight) ==
    [weight |-> weight, types |-> d.types \cup {connection_type}]

\* weight += weight; types.add(connection_type)
ReinforceData(d, connection_type, weight) ==
    [weight |-> d.weight + weight, types |-> d.types \cup {connection_type}]

\* add_edge(source, target, weight=weight, types={connection_type})
NewEdgeData(d, connection_type, weight) ==
    [weight |-> weight, types |-> {connection_type}]

\* GraphAnalyzer.add_connection(source, target, connection_type, weight).
\* Nothing in it can raise for string IDs and numeric weights, so the
\* "except Exception" handler is never entered; the call returns None.
AddConnection(source, target, connection_type, weight) ==
    /\ call' = NoCall
    /\ ret' = NoneRet
    /\ UNCHANGED <<is_initialized, fuseVars, cacheVars, threadVars>>
    /\ IF ~is_initialized
       THEN UNCHANGED <<nodes, adj, edata, observed, nObs>>
       ELSE /\ nObs < MaxObs
            /\ nObs' = nObs + 1
            /\ IF HasEdge(adj, source, target)
               THEN /\ edata' = SetEdgeData(edata, source, target,
                          ReinforceData(edata[<<source, target>>],
                                        connection_type, weight))
                    /\ UNCHANGED <<nodes, adj>>
               ELSE /\ nodes' = AddEdgeNodes(nodes, source, target)
                    /\ adj' = AddEdgeAdj(adj, source, target)
                    /\ edata' = SetEdgeData(edata, source, target,
                          NewEdgeData(edata[<<source, target>>],
                                      connection_type, weight))
            /\ observed' = [observed EXCEPT ![{source, target}] =
                   [sum   |-> @.sum + weight,
                    count |-> @.count + 1,
                    types |-> @.types \cup {connection_type},
                    first |-> IF @.count = 0 THEN <<source, target>>
                              ELSE @.first,
                    mixed |-> @.mixed \/ (@.count > 0 /\ source # target
                                          /\ @.first # <<source, target>>)]]

\* A query on a graph that creates what it looks up (as a defaultdict
\* would): asking about an asset inserts it among the nodes.
ScoreInsertingAssets(source, target) ==
    /\ call' = [op |-> "detect_lateral_movement",
                source |-> source, target |-> target]
    /\ ret' = DetectLateralMovement(is_initialized, nodes, adj, edata,
                                    source, target)
    /\ nodes' = AddEdgeNodes(nodes, source, target)
    /\ UNCHANGED <<is_initialized, adj, edata, observed, nObs>>
    /\ UNCHANGED <<fuseVars, cacheVars, threadVars>>

\* A caller asks GraphAnalyzer.detect_lateral_movement(source, target).
Score(source, target) ==
    /\ call' = [op |-> "detect_lateral_movement",
                source |-> source, target |-> target]
    /\ ret' = DetectLateralMovement(is_initialized, nodes, adj, edata,
                                    source, target)
    /\ UNCHANGED <<is_initialized, nodes, adj, edata, observed, nObs>>
    /\ UNCHANGED <<fuseVars, cacheVars, threadVars>>

\* A caller asks GraphAnalyzer.get_attack_paths(risk_threshold).
Discover(risk_threshold) ==
    /\ call' = [op |-> "get_attack_paths", risk_threshold |-> risk_threshold]
    /\ ret' = [attack_paths |->
                GetAttackPaths(is_initialized, nodes, adj, edata, risk_threshold)]
    /\ UNCHANGED <<is_initialized, nodes, adj, edata, observed, nObs>>
    /\ UNCHANGED <<fuseVars, cacheVars, threadVars>>

Init == AnalyzerInit /\ FuseIdle /\ CacheInit /\ ThreadsIdle

Next ==
    \/ Initialize
    \/ \E a \in Assets, b \in Assets, w \in WeightDeltas :
           AddConnection(a, b, "login", w)
    \/ \E a \in Assets, b \in Assets : Score(a, b)
    \/ \E th \in RiskThresholds : Discover(th)

Spec == Init /\ [][Next]_vars

\* The same analyzer, called with two IDs one of which is the empty string,
\* and with both connection types.
NextEmptyId ==
    \/ Initialize
    \/ \E a \in IdsWithEmpty, b \in IdsWithEmpty,
          t \in ConnectionTypes, w \in WeightDeltas :
           AddConnection(a, b, t, w)
    \/ \E a \in IdsWithEmpty, b \in IdsWithEmpty : Score(a, b)
    \/ \E th \in RiskThresholds : Discover(th)

SpecEmptyId == Init /\ [][NextEmptyId]_vars

----------------------------------------------------------------------------
(* The analyzer on the square A-B-D, A-C-D of equal weights, whose two     *)
(* routes between A and D cost the same.  The first two observations have  *)
(* been applied when the behaviour starts; MaxObs more follow.             *)

TieConnections == {<<"A", "B">>, <<"A", "C">>, <<"C", "D">>, <<"B", "D">>}
TieWeights == {2}
TieEndpoints == {"A", "D"}

\* The graph and its history in a record, as AnalyzerInit has them.
NoGraph ==
    [nodes |-> <<>>,
     adj |-> [n \in AssetIds |-> <<>>],
     edata |-> [e \in AssetIds \X AssetIds |-> NoData],
     observed |-> [p \in Pairs |->
                     [sum |-> 0, count |-> 0, types |-> {},
                      first |-> <<>>, mixed |-> FALSE]]]

\* add_connection(source, target, connection_type, weight) on an
\* initialized analyzer, as a function of the graph.
Connect(g, source, target, connection_type, weight) ==
    [nodes |-> IF HasEdge(g.adj, source, target) THEN g.nodes
               ELSE AddEdgeNodes(g.nodes, source, target),
     adj |-> IF HasEdge(g.adj, source, target) THEN g.adj
             ELSE AddEdgeAdj(g.adj, source, target),
     edata |-> SetEdgeData(g.edata, source, target,
                   IF HasEdge(g.adj, source, target)
                   THEN ReinforceData(g.edata[<<source, target>>],
                                      connection_type, weight)
                   ELSE NewEdgeData(g.edata[<<source, target>>],
                                    connection_type, weight)),
     observed |-> [g.observed EXCEPT ![{source, target}] =
                   [sum   |-> @.sum + weight,
                    count |-> @.count + 1,
                    types |-> @.types \cup {connection_type},
                    first |-> IF @.count = 0 THEN <<source, target>>
                              ELSE @.first,
                    mixed |-> @.mixed \/ (@.count > 0 /\ source # target
                                          /\ @.first # <<source, target>>)]]]

InitTie ==
    /\ is_initialized = TRUE
    /\ \E c1 \in TieConnections, c2 \in TieConnections, w \in TieWeights :
           LET g == Connect(Connect(NoGraph, c1[1], c1[2], "login", w),
                            c2[1], c2[2], "login", w)
           IN  /\ nodes = g.nodes
               /\ adj = g.adj
               /\ edata = g.edata
               /\ observed = g.observed
    /\ nObs = 0
    /\ call = NoCall
    /\ ret = NoneRet
    /\ FuseIdle
    /\ CacheInit
    /\ ThreadsIdle

NextTie ==
    \/ \E c \in TieConnections, w \in TieWeights :
           AddConnection(c[1], c[2], "login", w)
    \/ \E a \in TieEndpoints, b \in TieEndpoints : Score(a, b)

SpecTie == InitTie /\ [][NextTie]_vars

----------------------------------------------------------------------------
(* MLPipeline.analyze_event: the two score providers, the log parser and   *)
(* the graph analyzer feed the fusion.  MLPipeline.initialize() sets the   *)
(* pipeline's is_initialized right after the analyzer's, so one flag       *)
(* stands for both.                                                        *)

\* How a provider behaves on the event: it has no trained model, its model
\* raises, it answers, or it answers later than the caller can wait.
ProviderKinds == {"untrained", "raises", "ok", "late"}

\* What each provider's model computes for the event when it computes.
AnomalyOutcomes == [kind : ProviderKinds, score : {900}]
ClassifierOutcomes ==
    [kind : ProviderKinds, label : {"malicious"}, confidence : {800}]

\* The events: the keys log_message, source_asset and target_asset are
\* optional ("None" when absent).
Events ==
    [anomaly : AnomalyOutcomes, classifier : ClassifierOutcomes,
     log_message : {"None", "failed login"},
     source_asset : {"None", "A"}, target_asset : {"None", "C"}]

\* AnomalyDetector.predict: the neutral dict when the model is untrained or
\* raises; otherwise the call lasts as long as the model takes and returns
\* its score.
NeutralAnomaly == [anomaly_score |-> 0, is_anomaly |-> FALSE]
AnomalyPredict(outcome) ==
    IF outcome.kind \in {"untrained", "raises"}
    THEN NeutralAnomaly
    ELSE [anomaly_score |-> outcome.score,
          is_anomaly |-> outcome.score > 500,
          threshold |-> 500]

\* ThreatClassifier.predict, likewise (the probabilities are left out).
NeutralClassification == [classification |-> "benign", confidence |-> 0]
ClassifierPredict(outcome) ==
    IF outcome.kind \in {"untrained", "raises"}
    THEN NeutralClassification
    ELSE [classification |-> outcome.label, confidence |-> outcome.confidence]

\* LogParser.parse_log with the model loaded (entities and embedding, which
\* no later step reads, are left out).
ParseLog(log_message) == [confidence |-> 850]

\* "or" for "and": the analyzer is asked as soon as one of the two assets is
\* named.
EventResultsEitherAsset(init, ns, ad, ed, event) ==
    LET scored == [anomaly_detection |-> AnomalyPredict(event.anomaly),
                   threat_classification |->
                       ClassifierPredict(event.classifier)]
        parsed == IF event.log_message # "None"
                  THEN scored @@ [log_parsing |-> ParseLog(event.log_message)]
                  ELSE scored
    IN  IF event.source_asset # "None" \/ event.target_asset # "None"
        THEN parsed @@ [graph_analysis |->
                 DetectLateralMovement(init, ns, ad, ed,
                                       event.source_asset, event.target_asset)]
        ELSE parsed

\* results as analyze_event has built it when it calls the fusion.
EventResults(init, ns, ad, ed, event) ==
    LET scored == [anomaly_detection |-> AnomalyPredict(event.anomaly),
                   threat_classification |->
                       ClassifierPredict(event.classifier)]
        parsed == IF event.log_message # "None"
                  THEN scored @@ [log_parsing |-> ParseLog(event.log_message)]
                  ELSE scored
    IN  IF event.source_asset # "None" /\ event.target_asset # "None"
        THEN parsed @@ [graph_analysis |->
                 DetectLateralMovement(init, ns, ad, ed,
                                       event.source_asset, event.target_asset)]
        ELSE parsed

\* MLPipeline.analyze_event(event_data).  The providers, the parser and the
\* analyzer catch what they raise, so the handler that returns
\* {"error": str(e)} is never entered.
AnalyzeEventResult(init, ns, ad, ed, event) ==
    IF ~init THEN [error |-> "ML pipeline not initialized"]
    ELSE LET res == EventResults(init, ns, ad, ed, event)
         IN  res @@ [overall_threat_score |-> CalculateThreatScore(res)]

\* A caller asks MLPipeline.analyze_event(event_data).
AnalyzeEvent(event) ==
    /\ call' = [op |-> "analyze_event", event |-> event,
                initialized |-> is_initialized]
    /\ ret' = AnalyzeEventResult(is_initialized, nodes, adj, edata, event)
    /\ UNCHANGED <<is_initialized, nodes, adj, edata, observed, nObs>>
    /\ UNCHANGED <<fuseVars, cacheVars, threadVars>>

\* The connections observed while events are analysed.
EvaluateConnections == {<<"A", "B">>, <<"B", "C">>}
EvaluateWeights == {2, 3}

NextEvaluate ==
    \/ Initialize
    \/ \E c \in EvaluateConnections, w \in EvaluateWeights :
           AddConnection(c[1], c[2], "login", w)
    \/ \E event \in Events : AnalyzeEvent(event)

SpecEvaluate == Init /\ [][NextEvaluate]_vars

----------------------------------------------------------------------------
(* Three assets joined by a direct connection and by a route over the      *)
(* third, with light and heavy observations.  The first observation has    *)
(* been applied when the behaviour starts; MaxObs more follow.             *)

RouteConnections == {<<"A", "B">>, <<"B", "C">>, <<"A", "C">>}
RouteWeights == {1, 3}
RouteEndpoints == {"A", "C"}

InitRoute ==
    /\ is_initialized = TRUE
    /\ \E c \in RouteConnections, w \in RouteWeights :
           LET g == Connect(NoGraph, c[1], c[2], "login", w)
           IN  /\ nodes = g.nodes
               /\ adj = g.adj
               /\ edata = g.edata
               /\ observed = g.observed
    /\ nObs = 0
    /\ call = NoCall
    /\ ret = NoneRet
    /\ FuseIdle
    /\ CacheInit
    /\ ThreadsIdle

NextRoute ==
    \/ \E c \in RouteConnections, w \in RouteWeights :
           AddConnection(c[1], c[2], "login", w)
    \/ \E a \in RouteEndpoints, b \in RouteEndpoints : Score(a, b)

SpecRoute == InitRoute /\ [][NextRoute]_vars

----------------------------------------------------------------------------
(* The analyzer called from two threads: one applies add_connection, the   *)
(* other reads (detect_lateral_movement, get_attack_paths).  GraphAnalyzer *)
(* takes no lock, so the interpreter may switch threads between any two    *)
(* statements.  A step of the writer is one statement of add_connection    *)
(* (graph.add_edge counted as one); a step of the scan is one pair of      *)
(* get_attack_paths.                                                       *)

ThreadConnections == {<<"A", "B">>, <<"B", "C">>}
ThreadWeights == {2, 3}
ThreadThresholds == {0, 500}

\* What add_connection has applied once its last statement is done.
Observe(obs, source, target, connection_type, weight) ==
    [obs EXCEPT ![{source, target}] =
        [sum   |-> @.sum + weight,
         count |-> @.count + 1,
         types |-> @.types \cup {connection_type},
         first |-> IF @.count = 0 THEN <<source, target>> ELSE @.first,
         mixed |-> @.mixed \/ (@.count > 0 /\ source # target
                               /\ @.first # <<source, target>>)]]

\* add_connection behind a lock that get_attack_paths holds from its first
\* statement to its return: no observation starts while a scan runs.
BeginAddConnectionAfterScan(source, target, connection_type, weight) ==
    /\ ~scan.active
    /\ ~write.active
    /\ is_initialized
    /\ nObs < MaxObs
    /\ nObs' = nObs + 1
    /\ IF HasEdge(adj, source, target)
       THEN /\ write' = [active |-> TRUE, pc |-> "weight",
                         source |-> source, target |-> target,
                         connection_type |-> connection_type,
                         weight |-> weight,
                         before |-> edata[<<source, target>>]]
            /\ UNCHANGED <<nodes, adj, edata, observed>>
       ELSE /\ nodes' = AddEdgeNodes(nodes, source, target)
            /\ adj' = AddEdgeAdj(adj, source, target)
            /\ edata' = SetEdgeData(edata, source, target,
                          NewEdgeData(edata[<<source, target>>],
                                      connection_type, weight))
            /\ observed' = Observe(observed, source, target,
                                   connection_type, weight)
            /\ UNCHANGED write
    /\ UNCHANGED <<is_initialized, call, ret, scan, fuseVars, cacheVars>>

\* add_connection up to its branch: "if self.graph.has_edge(source, target)".
\* The else branch is the single call graph.add_edge(...), after which the
\* method returns.  before (history) is the edge as the call found it.
BeginAddConnection(source, target, connection_type, weight) ==
    /\ ~write.active
    /\ is_initialized
    /\ nObs < MaxObs
    /\ nObs' = nObs + 1
    /\ IF HasEdge(adj, source, target)
       THEN /\ write' = [active |-> TRUE, pc |-> "weight",
                         source |-> source, target |-> target,
                         connection_type |-> connection_type,
                         weight |-> weight,
                         before |-> edata[<<source, target>>]]
            /\ UNCHANGED <<nodes, adj, edata, observed>>
       ELSE /\ nodes' = AddEdgeNodes(nodes, source, target)
            /\ adj' = AddEdgeAdj(adj, source, target)
            /\ edata' = SetEdgeData(edata, source, target,
                          NewEdgeData(edata[<<source, target>>],
                                      connection_type, weight))
            /\ observed' = Observe(observed, source, target,
                                   connection_type, weight)
            /\ UNCHANGED write
    /\ UNCHANGED <<is_initialized, call, ret, scan, fuseVars, cacheVars>>

\* self.graph[source][target]['weight'] += weight
AddWeight ==
    /\ write.active
    /\ write.pc = "weight"
    /\ edata' = SetEdgeData(edata, write.source, write.target,
                  [edata[<<write.source, write.target>>] EXCEPT
                      !.weight = @ + write.weight])
    /\ write' = [write EXCEPT !.pc = "types"]
    /\ UNCHANGED <<is_initialized, nodes, adj, observed, nObs, call, ret>>
    /\ UNCHANGED <<scan, fuseVars, cacheVars>>

\* self.graph[source][target]['types'].add(connection_type), and return.
AddTypes ==
    /\ write.active
    /\ write.pc = "types"
    /\ edata' = SetEdgeData(edata, write.source, write.target,
                  [edata[<<write.source, write.target>>] EXCEPT
                      !.types = @ \cup {write.connection_type}])
    /\ observed' = Observe(observed, write.source, write.target,
                           write.connection_type, write.weight)
    /\ write' = NoWrite
    /\ UNCHANGED <<is_initialized, nodes, adj, nObs, call, ret>>
    /\ UNCHANGED <<scan, fuseVars, cacheVars>>

\* The loops going through self.graph.nodes() itself, with no list made of
\* it: the pairs are those of the graph as it is at each turn.
PairsToScanLive(snapshot, ns) == NodePairs(ns, 1, 2)

\* The pairs the loops of get_attack_paths go through: those of the list
\* "nodes" made when the call started, whatever the graph holds by now.
PairsToScan(snapshot, ns) == NodePairs(snapshot, 1, 2)

\* What a call that has not returned yet leaves in ret.
Pending == [pending |-> TRUE]

\* get_attack_paths(risk_threshold) up to its loops: the guard, then
\* nodes = list(self.graph.nodes()).  evaluated, writes, expired and
\* evaluated_at_expiry are history: the pairs handed to
\* detect_lateral_movement, the observations applied since the call
\* started, and whether and when the caller's deadline passed.
BeginDiscover(risk_threshold) ==
    /\ ~scan.active
    /\ IF ~is_initialized
       THEN /\ call' = [op |-> "get_attack_paths",
                        risk_threshold |-> risk_threshold,
                        returned |-> TRUE, snapshot |-> <<>>,
                        evaluated |-> <<>>, writes |-> 0,
                        expired |-> FALSE, evaluated_at_expiry |-> 0]
            /\ ret' = [attack_paths |-> <<>>]
            /\ UNCHANGED scan
       ELSE /\ scan' = [active |-> TRUE, nodes |-> nodes, next |-> 1,
                        attack_paths |-> <<>>,
                        risk_threshold |-> risk_threshold,
                        evaluated |-> <<>>, started_at |-> nObs,
                        expired |-> FALSE, evaluated_at_expiry |-> 0]
            /\ call' = [op |-> "get_attack_paths",
                        risk_threshold |-> risk_threshold,
                        returned |-> FALSE]
            /\ ret' = Pending
    /\ UNCHANGED <<is_initialized, nodes, adj, edata, observed, nObs>>
    /\ UNCHANGED <<write, fuseVars, cacheVars>>

\* One turn of the inner loop: detect_lateral_movement(source, target) on
\* the graph as it is now, and the append when the risk is above the
\* threshold.
EvaluatePair ==
    /\ scan.active
    /\ scan.next <= Len(PairsToScan(scan.nodes, nodes))
    /\ LET pair   == PairsToScan(scan.nodes, nodes)[scan.next]
           result == DetectLateralMovement(is_initialized, nodes, adj, edata,
                                           pair[1], pair[2])
       IN  scan' = [scan EXCEPT
                      !.next = @ + 1,
                      !.evaluated = Append(@, pair),
                      !.attack_paths =
                          IF result.risk_score > scan.risk_threshold
                          THEN Append(@, [source |-> pair[1],
                                          target |-> pair[2]] @@ result)
                          ELSE @]
    /\ UNCHANGED <<analyzerVars, write, fuseVars, cacheVars>>

\* return sorted(attack_paths, key=..., reverse=True)
ReturnDiscover ==
    /\ scan.active
    /\ scan.next > Len(PairsToScan(scan.nodes, nodes))
    /\ ret' = [attack_paths |-> SortedByRisk(scan.attack_paths)]
    /\ call' = [op |-> "get_attack_paths",
                risk_threshold |-> scan.risk_threshold,
                returned |-> TRUE, snapshot |-> scan.nodes,
                evaluated |-> scan.evaluated,
                writes |-> nObs - scan.started_at,
                expired |-> scan.expired,
                evaluated_at_expiry |-> scan.evaluated_at_expiry]
    /\ scan' = NoScan
    /\ UNCHANGED <<is_initialized, nodes, adj, edata, observed, nObs>>
    /\ UNCHANGED <<write, fuseVars, cacheVars>>

\* The deadline of the caller of get_attack_paths passes.  The method takes
\* no deadline and reads no clock: only the history records the event.
DeadlinePasses ==
    /\ scan.active
    /\ ~scan.expired
    /\ scan' = [scan EXCEPT !.expired = TRUE,
                            !.evaluated_at_expiry = scan.next - 1]
    /\ UNCHANGED <<analyzerVars, write, fuseVars, cacheVars>>

\* The reading thread asks detect_lateral_movement between two scans.
ThreadScore(source, target) == ~scan.active /\ Score(source, target)

NextThreads ==
    \/ Initialize
    \/ \E c \in ThreadConnections, t \in ConnectionTypes, w \in ThreadWeights :
           BeginAddConnection(c[1], c[2], t, w)
    \/ AddWeight
    \/ AddTypes
    \/ \E th \in ThreadThresholds : BeginDiscover(th)
    \/ EvaluatePair
    \/ ReturnDiscover
    \/ DeadlinePasses
    \/ \E c \in ThreadConnections : ThreadScore(c[1], c[2])

SpecThreads == Init /\ [][NextThreads]_vars

----------------------------------------------------------------------------
(* The fusion applied to every combination of the inputs *)

InitFuse ==
    /\ AnalyzerInit
    /\ CacheInit
    /\ \E a \in AnomalyScores, l \in Classifications,
          c \in Confidences, g \in GraphRisks :
           results = Results(a, l, c, g)
    /\ threat_score = NotScored
    /\ ThreadsIdle

\* threat_score = self._calculate_threat_score(results)
Fuse ==
    /\ ~threat_score.computed
    /\ threat_score' = [computed |-> TRUE, value |-> CalculateThreatScore(results)]
    /\ UNCHANGED <<results, analyzerVars, cacheVars, threadVars>>

NextFuse == Fuse

SpecFuse == InitFuse /\ [][NextFuse]_vars

----------------------------------------------------------------------------
(* The API process: alerts come in, the clock advances, the Redis server    *)
(* comes and goes, and clients ask for the attack paths.                   *)

\* database.init_db(): the Redis client is created and answers the ping.
InitDb ==
    /\ redis_client = "None"
    /\ redis_client' = "connected"
    /\ req' = NoReq
    /\ resp' = NoResp
    /\ UNCHANGED <<alerts, now, store, analyzerVars, fuseVars,
                   threadVars>>

\* The Redis server stops answering: commands raise ConnectionError.
RedisDown ==
    /\ redis_client = "connected"
    /\ redis_client' = "unreachable"
    /\ req' = NoReq
    /\ resp' = NoResp
    /\ UNCHANGED <<alerts, now, store, analyzerVars, fuseVars,
                   threadVars>>

\* The Redis server answers again, with the keys it held.
RedisUp ==
    /\ redis_client = "unreachable"
    /\ redis_client' = "connected"
    /\ req' = NoReq
    /\ resp' = NoResp
    /\ UNCHANGED <<alerts, now, store, analyzerVars, fuseVars,
                   threadVars>>

\* Time passes.
Tick ==
    /\ \E t \in Instants : t > now /\ now' = t
    /\ req' = NoReq
    /\ resp' = NoResp
    /\ UNCHANGED <<alerts, redis_client, store, analyzerVars, fuseVars,
                   threadVars>>

\* POST /alerts (alerts.create_alert): the row is inserted, then the key
\* "alerts:*" is deleted, which is none of the keys of the attack paths; with
\* no Redis the row stays inserted and the answer is a 500.
CreateAlert(affected_assets, category) ==
    /\ Len(alerts) < MaxAlerts
    /\ alerts' = Append(alerts, [affected_assets |-> affected_assets,
                                 category |-> category, created_at |-> now])
    /\ req' = [op |-> "create_alert"]
    /\ resp' = IF GetRedisClient(redis_client) = "ok"
               THEN [status |-> 200, message |-> "Alert created successfully"]
               ELSE [status |-> 500, detail |-> "Failed to create alert"]
    /\ UNCHANGED <<now, redis_client, store, analyzerVars, fuseVars,
                   threadVars>>

\* GET /attack-paths (visualize.get_attack_paths).  A cached dict is never
\* empty, so "if cached_result" is true on every hit.  found (history) is
\* what the server held under the key when the request came.
GetAttackPathsEndpoint(risk_level, time_range) ==
    LET cache_key     == CacheKey(risk_level, time_range)
        cached_result == GetCachedData(redis_client, store, cache_key, now)
        result        == ComputeResult(risk_level, time_range, alerts, now)
    IN  /\ req' = [op |-> "get_attack_paths", risk_level |-> risk_level,
                   time_range |-> time_range, found |-> store[cache_key]]
        /\ IF cached_result.raised # "no"
           THEN /\ resp' = AttackPathsError
                /\ UNCHANGED store
           ELSE IF cached_result.hit
           THEN /\ resp' = [status |-> 200, body |-> cached_result.value]
                /\ UNCHANGED store
           ELSE /\ resp' = [status |-> 200, body |-> result]
                /\ store' = CacheData(store, cache_key, result, CacheTtl, now)
        /\ UNCHANGED <<alerts, now, redis_client, analyzerVars, fuseVars,
                   threadVars>>

InitCache == AnalyzerInit /\ FuseIdle /\ CacheInit /\ ThreadsIdle

NextCache ==
    \/ InitDb
    \/ RedisDown
    \/ RedisUp
    \/ Tick
    \/ \E a \in AffectedAssets, c \in Categories : CreateAlert(a, c)
    \/ \E r \in RiskLevels, t \in TimeRanges : GetAttackPathsEndpoint(r, t)

SpecCache == InitCache /\ [][NextCache]_vars

----------------------------------------------------------------------------
(* Vocabulary of the claims *)

IsScoreCall == call.op = "detect_lateral_movement"
IsDiscoverCall == call.op = "get_attack_paths"

Known(a) == a \in Range(nodes)

\* The assets joined to the assets of S by observations the analyzer applied
\* (from the history, not from the adjacency the analyzer keeps).
RECURSIVE ObservedReach(_)
ObservedReach(S) ==
    LET next == S \cup {b \in AssetIds : \E a \in S : observed[{a, b}].count > 0}
    IN  IF next = S THEN S ELSE ObservedReach(next)

Connected(a, b) == b \in ObservedReach({a})

Weight(a, b) == edata[<<a, b>>].weight

\* The edges of the graph, as unordered pairs.
EdgeSet == {p \in Pairs : observed[p].count > 0}

ZeroRisk == [risk_score |-> 0, path |-> <<>>, is_suspicious |-> FALSE]

----------------------------------------------------------------------------
(* C1: for every pair of known, connected assets, Score returns a path     *)
(* result whose riskScore is min(1, pathLength * totalWeight / 10) and     *)
(* whose isSuspicious is riskScore > 0.7 (strict); with exactly the edges  *)
(* A-B of weight 3 and B-C of weight 2, Score(A, C) reports path           *)
(* [A, B, C], pathLength 2, totalWeight 5, riskScore 1.0, suspicious.      *)

C1_ScoreFormula ==
    (IsScoreCall /\ Known(call.source) /\ Known(call.target)
        /\ Connected(call.source, call.target))
    => /\ "path_length" \in DOMAIN ret
       /\ "total_weight" \in DOMAIN ret
       /\ ret.risk_score =
              Min(Unit, (ret.path_length * ret.total_weight * Unit) \div 10)
       /\ ret.is_suspicious = (ret.risk_score > 700)
       /\ ( (/\ EdgeSet = {{"A", "B"}, {"B", "C"}}
              /\ Weight("A", "B") = 3 /\ Weight("B", "C") = 2
              /\ call.source = "A" /\ call.target = "C")
             => ret = [risk_score |-> 1000, path |-> <<"A", "B", "C">>,
                       path_length |-> 2, is_suspicious |-> TRUE,
                       total_weight |-> 5] )

\* The part of C1 that the analyzer does satisfy: whenever Score returns a
\* path, the score and the verdict follow the formula.
C1_FormulaWhenPathReturned ==
    (IsScoreCall /\ "path_length" \in DOMAIN ret)
    => /\ ret.risk_score =
              Min(Unit, (ret.path_length * ret.total_weight * Unit) \div 10)
       /\ ret.is_suspicious = (ret.risk_score > 700)

C1_ExampleReached ==
    /\ IsScoreCall /\ call.source = "A" /\ call.target = "C"
    /\ EdgeSet = {{"A", "B"}, {"B", "C"}}
    /\ Weight("A", "B") = 3 /\ Weight("B", "C") = 2
    /\ ret.risk_score = 1000 /\ ret.path = <<"A", "B", "C">>

----------------------------------------------------------------------------
(* C3: the weight of the edge between a and b is the sum of the            *)
(* weightDelta of every observation the analyzer applied to that pair: the *)
(* first one creates the edge with its weightDelta, each later one adds    *)
(* its own; the same observation applied twice gives weight 2w.            *)

C3_WeightIsSumOfDeltas ==
    \A a \in AssetIds, b \in AssetIds :
        LET o == observed[{a, b}]
        IN  /\ (o.count > 0) = HasEdge(adj, a, b)
            /\ o.count > 0 => Weight(a, b) = o.sum

C3_TwiceGivesDouble ==
    \E a \in AssetIds, b \in AssetIds, w \in WeightDeltas :
        /\ observed[{a, b}].count = 2
        /\ observed[{a, b}].sum = 2 * w
        /\ Weight(a, b) = 2 * w

----------------------------------------------------------------------------
(* C4: at most one edge per unordered pair: the neighbours of a hold       *)
(* exactly one entry for b when the pair was observed (in either           *)
(* orientation, any number of times) and none otherwise, and both          *)
(* orientations read the same edge.                                        *)

Entries(a, b) == Cardinality({i \in 1..Len(adj[a]) : adj[a][i] = b})

C4_OneEdgePerPair ==
    \A a \in AssetIds, b \in AssetIds :
        /\ Entries(a, b) = IF observed[{a, b}].count > 0 THEN 1 ELSE 0
        /\ edata[<<a, b>>] = edata[<<b, a>>]

C4_BothOrientationsObserved ==
    \E a \in AssetIds, b \in AssetIds :
        /\ a # b
        /\ observed[{a, b}].mixed
        /\ Entries(a, b) = 1 /\ Entries(b, a) = 1
        /\ Weight(a, b) = observed[{a, b}].sum

----------------------------------------------------------------------------
(* C5: Score with an asset the graph does not know, or with no path        *)
(* between the two assets, returns riskScore 0, an empty path and          *)
(* isSuspicious false as its normal result, never an error.                *)

C5_NoPathIsZeroRisk ==
    (IsScoreCall /\ (\/ ~Known(call.source)
                     \/ ~Known(call.target)
                     \/ ~Connected(call.source, call.target)))
    => ret = ZeroRisk

C5_DisconnectedPairScored ==
    /\ IsScoreCall
    /\ Known(call.source) /\ Known(call.target)
    /\ ~Connected(call.source, call.target)
    /\ ret = ZeroRisk

C5_UnknownAssetScored ==
    /\ IsScoreCall
    /\ nodes # <<>>
    /\ ~Known(call.target)
    /\ ret = ZeroRisk

----------------------------------------------------------------------------
(* C7: Discover(riskThreshold) returns exactly one entry for each          *)
(* unordered pair of distinct known assets whose Score has a riskScore     *)
(* strictly above the threshold, and no other entry; every known asset is  *)
(* a candidate.  Score is computed once per pair, from the asset observed  *)
(* first to the one observed later, and the entry carries that result.     *)

ScoreOf(a, b) == DetectLateralMovement(is_initialized, nodes, adj, edata, a, b)

EntryPair(e) == {e.source, e.target}

\* Position of a known asset in the order of first observation.
Pos(a) == CHOOSE i \in 1..Len(nodes) : nodes[i] = a

C7_DiscoverExact ==
    IsDiscoverCall =>
        LET R  == ret.attack_paths
            th == call.risk_threshold
        IN  /\ \A i \in 1..Len(R) :
                   /\ R[i].source # R[i].target
                   /\ Known(R[i].source) /\ Known(R[i].target)
                   /\ R[i].risk_score > th
            /\ \A i \in 1..Len(R), j \in 1..Len(R) :
                   i # j => EntryPair(R[i]) # EntryPair(R[j])
            /\ \A a \in Range(nodes), b \in Range(nodes) :
                   Pos(a) < Pos(b) =>
                       LET sc == ScoreOf(a, b)
                           es == {i \in 1..Len(R) : EntryPair(R[i]) = {a, b}}
                       IN  IF sc.risk_score > th
                           THEN \E i \in es :
                                  R[i] = [source |-> a, target |-> b] @@ sc
                           ELSE es = {}

C7_SeveralPairsReturned ==
    /\ IsDiscoverCall
    /\ Len(nodes) = 3
    /\ Len(ret.attack_paths) >= 1
    /\ Len(ret.attack_paths) < 3

----------------------------------------------------------------------------
(* C8: the list returned by Discover is ordered by riskScore descending,   *)
(* and entries of equal riskScore are ordered by (source, target) in       *)
(* lexicographic order, whatever the order in which the assets were first  *)
(* observed.                                                               *)

\* The asset IDs in lexicographic order.
IdOrder == <<"", "A", "B", "C", "D">>
Rank(a) == CHOOSE i \in 1..Len(IdOrder) : IdOrder[i] = a

LexBefore(e, f) ==
    \/ Rank(e.source) < Rank(f.source)
    \/ e.source = f.source /\ Rank(e.target) < Rank(f.target)

C8_TiesLexicographic ==
    IsDiscoverCall =>
        LET R == ret.attack_paths
        IN  \A i \in 1..Len(R), j \in 1..Len(R) :
                i < j => \/ R[i].risk_score > R[j].risk_score
                         \/ /\ R[i].risk_score = R[j].risk_score
                            /\ LexBefore(R[i], R[j])

(* C8 as amended: the list is ordered by riskScore descending, and entries *)
(* of equal riskScore keep the order in which their pairs were evaluated:  *)
(* by first observation of the source, then of the target.                 *)

EvaluatedBefore(e, f) ==
    \/ Pos(e.source) < Pos(f.source)
    \/ e.source = f.source /\ Pos(e.target) < Pos(f.target)

C8_TiesInEvaluationOrder ==
    IsDiscoverCall =>
        LET R == ret.attack_paths
        IN  \A i \in 1..Len(R), j \in 1..Len(R) :
                i < j => \/ R[i].risk_score > R[j].risk_score
                         \/ /\ R[i].risk_score = R[j].risk_score
                            /\ EvaluatedBefore(R[i], R[j])

C8_TieReturned ==
    /\ IsDiscoverCall
    /\ \E i \in 1..Len(ret.attack_paths), j \in 1..Len(ret.attack_paths) :
           /\ i < j
           /\ ret.attack_paths[i].risk_score = ret.attack_paths[j].risk_score
           /\ ~LexBefore(ret.attack_paths[i], ret.attack_paths[j])
    /\ \E i \in 1..Len(ret.attack_paths), j \in 1..Len(ret.attack_paths) :
           ret.attack_paths[i].risk_score > ret.attack_paths[j].risk_score

----------------------------------------------------------------------------
(* C2: for all anomalyScore, confidence and graphRisk in [0, 1] and every  *)
(* label, the fused score is min(1, 0.3*anomalyScore + c + 0.3*graphRisk)  *)
(* with c = 0.4*confidence for malicious, 0.5*0.4*confidence for           *)
(* suspicious and 0 for benign; Fuse(0.9, {malicious, 0.8}, 0.0) = 0.59.   *)

C2_FuseFormula ==
    threat_score.computed =>
        LET anomalyScore == results.anomaly_detection.anomaly_score
            label        == results.threat_classification.classification
            confidence   == results.threat_classification.confidence
            graphRisk    == results.graph_analysis.risk_score
            c == IF label = "malicious" THEN 400 * confidence
                 ELSE IF label = "suspicious" THEN 200 * confidence
                 ELSE 0
        IN  /\ threat_score.value =
                   Min(1000000, 300 * anomalyScore + c + 300 * graphRisk)
            /\ (results = Results(900, "malicious", 800, 0)
                    => threat_score.value = 590000)

\* The fusion has been applied to a suspicious classification of confidence
\* 0.8 with anomaly score 0.9 and no graph risk, and gave 0.43.
C2_SuspiciousFused ==
    /\ results = Results(900, "suspicious", 800, 0)
    /\ threat_score = [computed |-> TRUE, value |-> 430000]

----------------------------------------------------------------------------
(* C6: add_connection with an empty source or target fails with            *)
(* InvalidAssetError and leaves the nodes, the edges, their weights and    *)
(* their type sets as they were before the call.                           *)

C6_EmptyIdRejected ==
    [][(\E b \in IdsWithEmpty, t \in ConnectionTypes, w \in WeightDeltas :
            AddConnection("", b, t, w) \/ AddConnection(b, "", t, w))
       => (/\ ret' = [error |-> "InvalidAssetError"]
           /\ UNCHANGED graphVars)]_vars

----------------------------------------------------------------------------
(* C9: a GET /attack-paths that succeeds never answers with a stale cached *)
(* value: its body is the result computed on the alerts as they are at the *)
(* time of the request (the time stamps of the body apart).                *)

\* A result dict without lastActivity and generated_at.
Content(body) ==
    [nodes |-> [k \in DOMAIN body.nodes |->
                   [id          |-> body.nodes[k].id,
                    riskLevel   |-> body.nodes[k].riskLevel,
                    connections |-> body.nodes[k].connections,
                    threats     |-> body.nodes[k].threats]],
     edges |-> body.edges,
     metadata |-> [total_nodes  |-> body.metadata.total_nodes,
                   total_edges  |-> body.metadata.total_edges,
                   attack_paths |-> body.metadata.attack_paths,
                   risk_level   |-> body.metadata.risk_level,
                   time_range   |-> body.metadata.time_range]]

IsAttackPathsRequest == req.op = "get_attack_paths"

\* The body a request gets from an empty, working cache.
Recomputed == Content(ComputeResult(req.risk_level, req.time_range, alerts, now))

C9_NoStaleResult ==
    (IsAttackPathsRequest /\ resp.status = 200)
        => Content(resp.body) = Recomputed

----------------------------------------------------------------------------
(* C10: with the Redis store unavailable, GET /attack-paths answers as on  *)
(* a cache miss: status 200 with the recomputed result, never an error.    *)

C10_CacheDownRecomputes ==
    (IsAttackPathsRequest /\ redis_client # "connected")
        => /\ resp.status = 200
           /\ Content(resp.body) = Recomputed

----------------------------------------------------------------------------
(* C11: whatever observations the graph accepted, the riskScore that Score *)
(* returns for any pair lies in [0, 1].                                    *)

C11_RiskScoreInUnitInterval ==
    IsScoreCall => (0 <= ret.risk_score /\ ret.risk_score <= Unit)

----------------------------------------------------------------------------
(* C12: for anomalyScore, confidence and graphRisk in [0, 1] and every     *)
(* label, the fused score is within [0, 1].                                *)

C12_FusedScoreInUnitInterval ==
    threat_score.computed =>
        (0 <= threat_score.value /\ threat_score.value <= One)

\* The three signals at their maximum fuse to exactly 1.
C12_MaximalSignalsFused ==
    /\ results = Results(1000, "malicious", 1000, 1000)
    /\ threat_score = [computed |-> TRUE, value |-> One]

----------------------------------------------------------------------------
(* C13: the fusion is monotonic: raising the anomaly score, the confidence *)
(* (label unchanged) or the graph risk, the other inputs unchanged, never  *)
(* lowers the fused score.                                                 *)

\* The fused score of the inputs of the state with some of them replaced.
FusedWith(anomaly_score, confidence, risk_score) ==
    CalculateThreatScore(
        Results(anomaly_score,
                results.threat_classification.classification,
                confidence, risk_score))

C13_FuseMonotonic ==
    threat_score.computed =>
        LET a == results.anomaly_detection.anomaly_score
            c == results.threat_classification.confidence
            g == results.graph_analysis.risk_score
        IN  /\ \A a2 \in AnomalyScores :
                   a2 >= a => FusedWith(a2, c, g) >= threat_score.value
            /\ \A c2 \in Confidences :
                   c2 >= c => FusedWith(a, c2, g) >= threat_score.value
            /\ \A g2 \in GraphRisks :
                   g2 >= g => FusedWith(a, c, g2) >= threat_score.value

\* A fused score that each of the three inputs, raised alone, raises.
C13_EachInputRaises ==
    /\ results = Results(300, "suspicious", 500, 0)
    /\ threat_score = [computed |-> TRUE, value |-> 190000]
    /\ FusedWith(900, 500, 0) > threat_score.value
    /\ FusedWith(300, 800, 0) > threat_score.value
    /\ FusedWith(300, 500, 500) > threat_score.value

----------------------------------------------------------------------------
(* C14: for every graph, one where a self-loop on a was observed included, *)
(* Score(a, a) has riskScore 0.                                            *)

C14_SelfScoreIsZero ==
    (IsScoreCall /\ call.source = call.target) => ret.risk_score = 0

\* Score(a, a) on an asset whose self-loop carries a weight: the path is
\* the asset alone, of length 0 and weight 0.
C14_SelfLoopScored ==
    /\ IsScoreCall
    /\ call.source = call.target
    /\ observed[{call.source}].count > 0
    /\ Weight(call.source, call.source) # 0
    /\ ret = [risk_score |-> 0, path |-> <<call.source>>, path_length |-> 0,
              is_suspicious |-> FALSE, total_weight |-> 0]

----------------------------------------------------------------------------
(* C15: Discover with a threshold of 1.0 or more returns an empty list,    *)
(* since no riskScore exceeds 1.0.                                         *)

C15_NothingAboveOne ==
    (IsDiscoverCall /\ call.risk_threshold >= Unit) => ret.attack_paths = <<>>

\* Discover(1.0) on a graph with a pair whose riskScore is capped at 1.0.
C15_CappedPairNotReturned ==
    /\ IsDiscoverCall
    /\ call.risk_threshold = Unit
    /\ \E a \in Assets, b \in Assets :
           /\ Known(a) /\ Known(b) /\ Pos(a) < Pos(b)
           /\ ScoreOf(a, b).risk_score = Unit
           /\ ScoreOf(a, b).path_length * ScoreOf(a, b).total_weight
                  > Normalization
    /\ ret.attack_paths = <<>>

----------------------------------------------------------------------------
(* C16: the shortest path is symmetric: for connected assets a and b the   *)
(* path returned for (a, b), reversed, is the path returned for (b, a),    *)
(* also when several paths have the same minimal cost.                     *)

C16_PathSymmetric ==
    (IsScoreCall /\ Known(call.source) /\ Known(call.target)
        /\ Connected(call.source, call.target))
    => Reverse(ret.path) = ScoreOf(call.target, call.source).path

----------------------------------------------------------------------------
(* C17: the analyzer holds a revision counter that every successful        *)
(* add_connection increments by exactly one and nothing decrements, so     *)
(* that graphs of different contents have different revisions.  The        *)
(* analyzer's state is its attributes: a step that changes the graph must  *)
(* find a revision among them to increment.                                *)

C17_RevisionBumped ==
    [][(<<nodes, adj, edata>>' # <<nodes, adj, edata>>)
          => "revision" \in AnalyzerAttributes]_vars

----------------------------------------------------------------------------
(* C18: the cumulative weight of an existing edge never decreases: after   *)
(* each add_connection it is at least what it was before the call.         *)

C18_WeightNeverDecreases ==
    [][\A a \in AssetIds, b \in AssetIds :
           HasEdge(adj, a, b)
               => edata'[<<a, b>>].weight >= edata[<<a, b>>].weight]_vars

----------------------------------------------------------------------------
(* C19: the tag set of an edge is exactly the set of the distinct          *)
(* connection types observed on its unordered pair: every observation adds *)
(* its type, none is removed, a repeated type is held once.                *)

C19_TagSetIsObservedTypes ==
    \A a \in AssetIds, b \in AssetIds :
        /\ edata[<<a, b>>].types = observed[{a, b}].types
        /\ HasEdge(adj, a, b) <=> observed[{a, b}].count > 0

\* An edge observed twice, with a different type each time.
C19_TwoTypesOnOneEdge ==
    \E a \in AssetIds, b \in AssetIds :
        /\ observed[{a, b}].count = 2
        /\ edata[<<a, b>>].types = {"login", "file-transfer"}

\* An edge observed twice with the same type.
C19_RepeatedTypeHeldOnce ==
    \E a \in AssetIds, b \in AssetIds :
        /\ observed[{a, b}].count = 2
        /\ edata[<<a, b>>].types = {"login"}


----------------------------------------------------------------------------
\* C20: when the anomaly model or the classifier fails or times out during
\* analyze_event on an initialized pipeline, the call returns an overall
\* score and no error, the failed signal is its neutral default (anomaly
\* score 0; benign with confidence 0), and the overall score is the fusion
\* of the remaining signals.
IsAnalyzeCall == call.op = "analyze_event"

Raised(outcome) == outcome.kind = "raises"
FailedOrTimedOut(outcome) == outcome.kind \in {"raises", "late"}

\* The returned signals with the named ones replaced by their defaults.
Remaining(anomalyOut, classifierOut) ==
    [ret EXCEPT
       !.anomaly_detection =
           IF anomalyOut THEN NeutralAnomaly ELSE @,
       !.threat_classification =
           IF classifierOut THEN NeutralClassification ELSE @]

C20_FailedProviderNeutral ==
    (/\ IsAnalyzeCall
     /\ call.initialized
     /\ \/ FailedOrTimedOut(call.event.anomaly)
        \/ FailedOrTimedOut(call.event.classifier))
    => /\ "error" \notin DOMAIN ret
       /\ "overall_threat_score" \in DOMAIN ret
       /\ FailedOrTimedOut(call.event.anomaly)
              => ret.anomaly_detection = NeutralAnomaly
       /\ FailedOrTimedOut(call.event.classifier)
              => ret.threat_classification = NeutralClassification
       /\ ret.overall_threat_score =
              CalculateThreatScore(
                  Remaining(FailedOrTimedOut(call.event.anomaly),
                            FailedOrTimedOut(call.event.classifier)))

\* The same for a provider that raises, which predict() catches.
C20_RaisingProviderNeutral ==
    (/\ IsAnalyzeCall
     /\ call.initialized
     /\ \/ Raised(call.event.anomaly)
        \/ Raised(call.event.classifier))
    => /\ "error" \notin DOMAIN ret
       /\ "overall_threat_score" \in DOMAIN ret
       /\ Raised(call.event.anomaly)
              => ret.anomaly_detection = NeutralAnomaly
       /\ Raised(call.event.classifier)
              => ret.threat_classification = NeutralClassification
       /\ ret.overall_threat_score =
              CalculateThreatScore(
                  Remaining(Raised(call.event.anomaly),
                            Raised(call.event.classifier)))

\* The anomaly model raises while the classifier and the graph answer: the
\* score returned is the fusion of those two.
C20_RaisedAnomalyFused ==
    /\ IsAnalyzeCall
    /\ call.initialized
    /\ Raised(call.event.anomaly)
    /\ call.event.classifier.kind = "ok"
    /\ "graph_analysis" \in DOMAIN ret
    /\ ret.graph_analysis.risk_score > 0
    /\ ret.anomaly_detection = NeutralAnomaly
    /\ ret.overall_threat_score > 0


----------------------------------------------------------------------------
\* C21: analyze_event asks the analyzer for Score(source, target) exactly
\* when the event names both a source and a target asset; when either is
\* missing the result holds no graph signal and the overall score is the
\* fusion of the anomaly score and the classification with graph risk 0.
NamesBothAssets(event) ==
    event.source_asset # "None" /\ event.target_asset # "None"

C21_GraphSignalOnlyForPair ==
    (IsAnalyzeCall /\ call.initialized)
    => /\ ("graph_analysis" \in DOMAIN ret) <=> NamesBothAssets(call.event)
       /\ NamesBothAssets(call.event)
             => ret.graph_analysis =
                    ScoreOf(call.event.source_asset, call.event.target_asset)
       /\ ~NamesBothAssets(call.event)
             => ret.overall_threat_score =
                    CalculateThreatScore(
                        Results(ret.anomaly_detection.anomaly_score,
                                ret.threat_classification.classification,
                                ret.threat_classification.confidence, 0))

\* An event that names only its source, analysed while the graph holds a
\* risky route from that source: the route is not counted.
C21_TargetMissingNoGraphSignal ==
    /\ IsAnalyzeCall
    /\ call.initialized
    /\ call.event.source_asset = "A"
    /\ call.event.target_asset = "None"
    /\ call.event.anomaly.kind = "ok"
    /\ call.event.classifier.kind = "ok"
    /\ ScoreOf("A", "C").risk_score > 0
    /\ "graph_analysis" \notin DOMAIN ret
    /\ ret.overall_threat_score = 590000

----------------------------------------------------------------------------
\* C22: when the caller's deadline passes while get_attack_paths is running
\* with pairs left to evaluate, the call evaluates no pair after the one in progress and returns the
\* ranked list of the pairs evaluated so far, marked partial: true.
DiscoverReturned == IsDiscoverCall /\ call.returned

C22_DeadlineStopsDiscover ==
    (/\ DiscoverReturned
     /\ call.expired
     /\ call.evaluated_at_expiry < Len(NodePairs(call.snapshot, 1, 2)))
    => /\ "partial" \in DOMAIN ret
       /\ ret.partial
       /\ call.evaluated =
              SubSeq(NodePairs(call.snapshot, 1, 2), 1,
                     call.evaluated_at_expiry)

----------------------------------------------------------------------------
\* C23: an entry written by cache_data(key, value, ttl) is what a GET
\* /attack-paths on a working Redis returns as long as its TTL has not
\* elapsed; once it has, the request misses, recomputes the result and
\* writes it back with a fresh TTL.
RequestKey == CacheKey(req.risk_level, req.time_range)

C23_ServedUntilExpiry ==
    (IsAttackPathsRequest /\ resp.status = 200 /\ req.found.present)
    => IF now < req.found.expires_at
       THEN /\ resp.body = Eval(req.found.value)
            /\ store[RequestKey] = req.found
       ELSE /\ resp.body =
                   ComputeResult(req.risk_level, req.time_range, alerts, now)
            /\ store[RequestKey] =
                   [present |-> TRUE, value |-> Str(resp.body),
                    expires_at |-> now + CacheTtl]

\* A request finds an entry whose TTL has elapsed and answers with a result
\* that differs from it by more than its time stamps.
C23_ExpiredEntryRecomputed ==
    /\ IsAttackPathsRequest
    /\ resp.status = 200
    /\ req.found.present
    /\ now >= req.found.expires_at
    /\ Content(resp.body) # Content(Eval(req.found.value))

\* A request within the TTL answers with the entry, although the alerts
\* have changed since it was written.
C23_LiveEntryServed ==
    /\ IsAttackPathsRequest
    /\ resp.status = 200
    /\ req.found.present
    /\ now < req.found.expires_at
    /\ resp.body = Eval(req.found.value)
    /\ Content(resp.body) # Recomputed

----------------------------------------------------------------------------
\* C24: the path that Score selects between two assets minimises the sum
\* over its edges of 1 / (1 + weight) among the routes between them, so a
\* heavily reinforced direct edge is preferred to a route of light edges.

\* The routes from a to b: sequences of distinct known assets, each joined
\* to the next by an edge.
SimplePaths(a, b) ==
    {p \in UNION {[1..n -> Range(nodes)] : n \in 1..Len(nodes)} :
        /\ p[1] = a
        /\ p[Len(p)] = b
        /\ \A i, j \in 1..Len(p) : i # j => p[i] # p[j]
        /\ \A i \in 1..(Len(p) - 1) : HasEdge(adj, p[i], p[i + 1])}

\* The sum of 1 / (1 + weight) over the edges of a path, as the fraction
\* <<numerator, denominator>>.
RECURSIVE InverseCost(_)
InverseCost(path) ==
    IF Len(path) < 2 THEN <<0, 1>>
    ELSE LET w    == 1 + Weight(path[1], path[2])
             rest == InverseCost(Tail(path))
         IN  <<rest[1] * w + rest[2], rest[2] * w>>

\* x <= y for fractions with positive denominators.
FractionLeq(x, y) == x[1] * y[2] <= y[1] * x[2]

C24_MinimisesInverseWeight ==
    (IsScoreCall /\ ret.path # <<>>)
    => \A p \in SimplePaths(call.source, call.target) :
           FractionLeq(InverseCost(ret.path), InverseCost(p))

----------------------------------------------------------------------------
\* C25: when several routes between two assets have the same minimal cost,
\* the path returned is one with the fewest hops and, among those, the
\* smallest in lexicographic order of the asset IDs, whatever the order in
\* which the edges were inserted.

\* The order of the asset IDs as strings.
IdRank == [a \in AssetIds |->
              IF a = "" THEN 0 ELSE IF a = "A" THEN 1 ELSE IF a = "B" THEN 2
              ELSE IF a = "C" THEN 3 ELSE 4]

\* p comes before q, or is q, in lexicographic order (paths of equal length
\* over IDs of one letter, so that the concatenations compare alike).
RECURSIVE LexLeq(_, _)
LexLeq(p, q) ==
    IF p = <<>> THEN TRUE
    ELSE IF IdRank[p[1]] # IdRank[q[1]] THEN IdRank[p[1]] < IdRank[q[1]]
    ELSE LexLeq(Tail(p), Tail(q))

\* The routes of least cost, the cost of a route being the sum of its weights.
CheapestPaths(a, b) ==
    {p \in SimplePaths(a, b) :
        \A q \in SimplePaths(a, b) : PathWeight(edata, p) <= PathWeight(edata, q)}

C25_TieBreakHopsThenLex ==
    (IsScoreCall /\ ret.path # <<>> /\ ret.path \in CheapestPaths(call.source, call.target))
    => \A p \in CheapestPaths(call.source, call.target) :
           \/ Len(ret.path) < Len(p)
           \/ Len(ret.path) = Len(p) /\ LexLeq(ret.path, p)

----------------------------------------------------------------------------
\* C26: with add_connection and reads running in different threads, a read
\* never finds an edge half-updated: every edge is either as it was before
\* the observation in progress or as it is after it, weight and tag set
\* together (and the revision, which the analyzer does not keep).
C26_NoHalfUpdatedEdge ==
    write.active
    => LET e == edata[<<write.source, write.target>>]
       IN  \/ e = write.before
           \/ e = ReinforceData(write.before, write.connection_type,
                                write.weight)

\* A reader between the two statements: it asks for the score of the pair
\* while the edge has its new weight and its old tag set.
C26_ReadBetweenStatements ==
    /\ write.active
    /\ write.pc = "types"
    /\ IsScoreCall
    /\ {call.source, call.target} = {write.source, write.target}
    /\ ret.total_weight = write.before.weight + write.weight
    /\ edata[<<write.source, write.target>>].types = write.before.types
    /\ write.connection_type \notin write.before.types

----------------------------------------------------------------------------
\* C27: get_attack_paths works on the list of assets it made when it
\* started: the pairs it evaluates are exactly the pairs of that list, and
\* an asset that add_connection inserts while the scan is in progress is
\* neither source nor target of any entry of the result.
C27_ScansSnapshotPairs ==
    DiscoverReturned
    => /\ call.evaluated = NodePairs(call.snapshot, 1, 2)
       /\ \A i \in 1..Len(ret.attack_paths) :
              /\ ret.attack_paths[i].source \in Range(call.snapshot)
              /\ ret.attack_paths[i].target \in Range(call.snapshot)

\* While a scan is in progress its pairs are a prefix of those of the list.
C27_ScanFollowsSnapshot ==
    scan.active
    => scan.evaluated = SubSeq(NodePairs(scan.nodes, 1, 2), 1, scan.next - 1)

\* A scan that started with two assets has returned its pair, and a third
\* asset came into the graph while it ran.
C27_AssetAddedDuringScan ==
    /\ DiscoverReturned
    /\ call.writes > 0
    /\ Len(call.snapshot) = 2
    /\ Len(nodes) = 3
    /\ Len(ret.attack_paths) = 1

----------------------------------------------------------------------------
\* C28: get_attack_paths holds no lock that add_connection needs: while a
\* scan is in progress, with pairs still to evaluate, an observation can
\* start and each of its statements can run; it does not wait for the scan
\* to return.
ScanInProgress ==
    scan.active /\ scan.next <= Len(PairsToScan(scan.nodes, nodes))

----------------------------------------------------------------------------
\* C29: a non-empty path returned by Score(a, b) starts at a, ends at b,
\* repeats no asset, joins consecutive assets by edges of the graph, has
\* path_length = len(path) - 1 and total_weight = the sum of the current
\* weights of its edges.
C29_PathWellFormed ==
    (IsScoreCall /\ ret.path # <<>>)
    => LET path == ret.path
       IN  /\ path[1] = call.source
           /\ path[Len(path)] = call.target
           /\ \A i, j \in 1..Len(path) : i # j => path[i] # path[j]
           /\ \A i \in 1..(Len(path) - 1) :
                  /\ HasEdge(adj, path[i], path[i + 1])
                  /\ observed[{path[i], path[i + 1]}].count > 0
           /\ ret.path_length = Len(path) - 1
           /\ ret.total_weight = PathWeight(edata, path)

\* The route A-B-C of the two observations of weights 2 and 3.
C29_TwoHopPathScored ==
    /\ IsScoreCall
    /\ call.source = "A"
    /\ call.target = "C"
    /\ ret.path = <<"A", "B", "C">>
    /\ ret.path_length = 2
    /\ ret.total_weight = 5
    /\ ret.risk_score = Unit
    /\ ret.is_suspicious

----------------------------------------------------------------------------
\* C30: detect_lateral_movement and get_attack_paths are read-only: for any
\* arguments, IDs unknown to the graph included, they leave the assets, the
\* edges, the weights and the tag sets as they were.
\* A step is one of the two queries when it leaves that query in call
\* (initialize and add_connection leave none).
C30_QueriesReadOnly ==
    [][(call'.op \in {"detect_lateral_movement", "get_attack_paths"})
       => UNCHANGED <<nodes, adj, edata>>]_vars

\* An initialized analyzer that knows A and B was asked about C, and C is
\* still unknown.
C30_UnknownAssetNotInserted ==
    /\ is_initialized
    /\ IsScoreCall
    /\ call.target = "C"
    /\ Known(call.source)
    /\ ~Known("C")
    /\ nodes # <<>>
    /\ ret = NoRisk

====
